---- MODULE Spec2Model ----
(***************************************************************************)
(* Model of the parallel AES-128-CTR bulk record generator (src/main.rs).  *)
(* A record is one 16-byte block; a block is a sequence of 16 bytes, so    *)
(* Rust's iv[0] is iv[1] here and Rust's iv[8..16] is iv[9..16].           *)
(***************************************************************************)
EXTENDS Integers, Sequences, FiniteSets, TLC

(***************************************************************************)
(* Bytes and blocks                                                        *)
(***************************************************************************)
Byte == 0..255

BlockLen == 16

\* a block built byte by byte; the tuple is evaluated once, when it is built
Block(F(_)) ==
    <<F(1), F(2), F(3), F(4), F(5), F(6), F(7), F(8),
      F(9), F(10), F(11), F(12), F(13), F(14), F(15), F(16)>>

ZeroBlock == <<0, 0, 0, 0, 0, 0, 0, 0, 0, 0, 0, 0, 0, 0, 0, 0>>

\* exclusive or of two 4-bit values: entry 16 * a + b + 1 is a xor b
XorNibble == <<
     0,  1,  2,  3,  4,  5,  6,  7,  8,  9, 10, 11, 12, 13, 14, 15,
     1,  0,  3,  2,  5,  4,  7,  6,  9,  8, 11, 10, 13, 12, 15, 14,
     2,  3,  0,  1,  6,  7,  4,  5, 10, 11,  8,  9, 14, 15, 12, 13,
     3,  2,  1,  0,  7,  6,  5,  4, 11, 10,  9,  8, 15, 14, 13, 12,
     4,  5,  6,  7,  0,  1,  2,  3, 12, 13, 14, 15,  8,  9, 10, 11,
     5,  4,  7,  6,  1,  0,  3,  2, 13, 12, 15, 14,  9,  8, 11, 10,
     6,  7,  4,  5,  2,  3,  0,  1, 14, 15, 12, 13, 10, 11,  8,  9,
     7,  6,  5,  4,  3,  2,  1,  0, 15, 14, 13, 12, 11, 10,  9,  8,
     8,  9, 10, 11, 12, 13, 14, 15,  0,  1,  2,  3,  4,  5,  6,  7,
     9,  8, 11, 10, 13, 12, 15, 14,  1,  0,  3,  2,  5,  4,  7,  6,
    10, 11,  8,  9, 14, 15, 12, 13,  2,  3,  0,  1,  6,  7,  4,  5,
    11, 10,  9,  8, 15, 14, 13, 12,  3,  2,  1,  0,  7,  6,  5,  4,
    12, 13, 14, 15,  8,  9, 10, 11,  4,  5,  6,  7,  0,  1,  2,  3,
    13, 12, 15, 14,  9,  8, 11, 10,  5,  4,  7,  6,  1,  0,  3,  2,
    14, 15, 12, 13, 10, 11,  8,  9,  6,  7,  4,  5,  2,  3,  0,  1,
    15, 14, 13, 12, 11, 10,  9,  8,  7,  6,  5,  4,  3,  2,  1,  0
>>

\* bitwise exclusive or of two bytes, nibble by nibble
Xor(a, b) ==
      16 * XorNibble[16 * (a \div 16) + (b \div 16) + 1]
    + XorNibble[16 * (a % 16) + (b % 16) + 1]

XorBlock(x, y) ==
    CHOOSE out \in {LET F(b) == Xor(xv[b], yv[b]) IN Block(F) : xv \in {x}, yv \in {y}} : TRUE

(***************************************************************************)
(* AES-128 block encryption (FIPS-197), the block cipher behind Aes128Ctr. *)
(* The state is kept in the byte order of the input block (column-major).  *)
(***************************************************************************)
SBox == <<
     99, 124, 119, 123, 242, 107, 111, 197,  48,   1, 103,  43, 254, 215, 171, 118,
    202, 130, 201, 125, 250,  89,  71, 240, 173, 212, 162, 175, 156, 164, 114, 192,
    183, 253, 147,  38,  54,  63, 247, 204,  52, 165, 229, 241, 113, 216,  49,  21,
      4, 199,  35, 195,  24, 150,   5, 154,   7,  18, 128, 226, 235,  39, 178, 117,
      9, 131,  44,  26,  27, 110,  90, 160,  82,  59, 214, 179,  41, 227,  47, 132,
     83, 209,   0, 237,  32, 252, 177,  91, 106, 203, 190,  57,  74,  76,  88, 207,
    208, 239, 170, 251,  67,  77,  51, 133,  69, 249,   2, 127,  80,  60, 159, 168,
     81, 163,  64, 143, 146, 157,  56, 245, 188, 182, 218,  33,  16, 255, 243, 210,
    205,  12,  19, 236,  95, 151,  68,  23, 196, 167, 126,  61, 100,  93,  25, 115,
     96, 129,  79, 220,  34,  42, 144, 136,  70, 238, 184,  20, 222,  94,  11, 219,
    224,  50,  58,  10,  73,   6,  36,  92, 194, 211, 172,  98, 145, 149, 228, 121,
    231, 200,  55, 109, 141, 213,  78, 169, 108,  86, 244, 234, 101, 122, 174,   8,
    186, 120,  37,  46,  28, 166, 180, 198, 232, 221, 116,  31,  75, 189, 139, 138,
    112,  62, 181, 102,  72,   3, 246,  14,  97,  53,  87, 185, 134, 193,  29, 158,
    225, 248, 152,  17, 105, 217, 142, 148, 155,  30, 135, 233, 206,  85,  40, 223,
    140, 161, 137,  13, 191, 230,  66, 104,  65, 153,  45,  15, 176,  84, 187,  22
>>

\* multiplication by 2 in GF(2^8) modulo x^8 + x^4 + x^3 + x + 1:
\* entry a + 1 is 2 * a
Mul2 == <<
      0,   2,   4,   6,   8,  10,  12,  14,  16,  18,  20,  22,  24,  26,  28,  30,
     32,  34,  36,  38,  40,  42,  44,  46,  48,  50,  52,  54,  56,  58,  60,  62,
     64,  66,  68,  70,  72,  74,  76,  78,  80,  82,  84,  86,  88,  90,  92,  94,
     96,  98, 100, 102, 104, 106, 108, 110, 112, 114, 116, 118, 120, 122, 124, 126,
    128, 130, 132, 134, 136, 138, 140, 142, 144, 146, 148, 150, 152, 154, 156, 158,
    160, 162, 164, 166, 168, 170, 172, 174, 176, 178, 180, 182, 184, 186, 188, 190,
    192, 194, 196, 198, 200, 202, 204, 206, 208, 210, 212, 214, 216, 218, 220, 222,
    224, 226, 228, 230, 232, 234, 236, 238, 240, 242, 244, 246, 248, 250, 252, 254,
     27,  25,  31,  29,  19,  17,  23,  21,  11,   9,  15,  13,   3,   1,   7,   5,
     59,  57,  63,  61,  51,  49,  55,  53,  43,  41,  47,  45,  35,  33,  39,  37,
     91,  89,  95,  93,  83,  81,  87,  85,  75,  73,  79,  77,  67,  65,  71,  69,
    123, 121, 127, 125, 115, 113, 119, 117, 107, 105, 111, 109,  99,  97, 103, 101,
    155, 153, 159, 157, 147, 145, 151, 149, 139, 137, 143, 141, 131, 129, 135, 133,
    187, 185, 191, 189, 179, 177, 183, 181, 171, 169, 175, 173, 163, 161, 167, 165,
    219, 217, 223, 221, 211, 209, 215, 213, 203, 201, 207, 205, 195, 193, 199, 197,
    251, 249, 255, 253, 243, 241, 247, 245, 235, 233, 239, 237, 227, 225, 231, 229
>>

\* multiplication by 3: entry a + 1 is 2 * a xor a
Mul3 == <<
      0,   3,   6,   5,  12,  15,  10,   9,  24,  27,  30,  29,  20,  23,  18,  17,
     48,  51,  54,  53,  60,  63,  58,  57,  40,  43,  46,  45,  36,  39,  34,  33,
     96,  99, 102, 101, 108, 111, 106, 105, 120, 123, 126, 125, 116, 119, 114, 113,
     80,  83,  86,  85,  92,  95,  90,  89,  72,  75,  78,  77,  68,  71,  66,  65,
    192, 195, 198, 197, 204, 207, 202, 201, 216, 219, 222, 221, 212, 215, 210, 209,
    240, 243, 246, 245, 252, 255, 250, 249, 232, 235, 238, 237, 228, 231, 226, 225,
    160, 163, 166, 165, 172, 175, 170, 169, 184, 187, 190, 189, 180, 183, 178, 177,
    144, 147, 150, 149, 156, 159, 154, 153, 136, 139, 142, 141, 132, 135, 130, 129,
    155, 152, 157, 158, 151, 148, 145, 146, 131, 128, 133, 134, 143, 140, 137, 138,
    171, 168, 173, 174, 167, 164, 161, 162, 179, 176, 181, 182, 191, 188, 185, 186,
    251, 248, 253, 254, 247, 244, 241, 242, 227, 224, 229, 230, 239, 236, 233, 234,
    203, 200, 205, 206, 199, 196, 193, 194, 211, 208, 213, 214, 223, 220, 217, 218,
     91,  88,  93,  94,  87,  84,  81,  82,  67,  64,  69,  70,  79,  76,  73,  74,
    107, 104, 109, 110, 103, 100,  97,  98, 115, 112, 117, 118, 127, 124, 121, 122,
     59,  56,  61,  62,  55,  52,  49,  50,  35,  32,  37,  38,  47,  44,  41,  42,
     11,   8,  13,  14,   7,   4,   1,   2,  19,  16,  21,  22,  31,  28,  25,  26
>>

SubBytes(s) == LET F(b) == SBox[s[b] + 1] IN Block(F)

\* row r of column c moves to column c - r: byte i comes from i + 4 * (i mod 4)
ShiftRows(s) == LET F(b) == s[(((b - 1) + 4 * ((b - 1) % 4)) % 16) + 1] IN Block(F)

MixColumns(s) ==
    LET F(b) ==
            LET col == (b - 1) \div 4
                row == (b - 1) % 4
                at(j) == s[4 * col + ((row + j) % 4) + 1]
            IN  Xor(Xor(Mul2[at(0) + 1], Mul3[at(1) + 1]), Xor(at(2), at(3)))
    IN  Block(F)

RotWord(w) == <<w[2], w[3], w[4], w[1]>>

SubWord(w) == <<SBox[w[1] + 1], SBox[w[2] + 1], SBox[w[3] + 1], SBox[w[4] + 1]>>

XorWord(v, w) ==
    CHOOSE out \in {<<Xor(vv[1], wv[1]), Xor(vv[2], wv[2]), Xor(vv[3], wv[3]), Xor(vv[4], wv[4])>> :
                      vv \in {v}, wv \in {w}} : TRUE

\* round constants of the key schedule
Rcon == <<1, 2, 4, 8, 16, 32, 64, 128, 27, 54>>

\* Every intermediate block below is bound as the one element of a
\* singleton set, so that it is computed once, before the step that uses it.

\* SubWord(RotWord(w)) xor Rcon[n], the transform of every fourth word
KeyCore(w, n) == XorWord(SubWord(RotWord(w)), <<Rcon[n], 0, 0, 0>>)

\* word i (0-based, 4..43) of the key schedule from the words ws before it:
\* w[i] = w[i-4] xor temp, temp being w[i-1], transformed when 4 divides i
NextWord(ws, i) ==
    XorWord(ws[i - 3], IF i % 4 = 0 THEN KeyCore(ws[i], i \div 4) ELSE ws[i])

\* ws holds words 0..i-1; the result holds words 0..43
RECURSIVE ExpandWords(_, _)
ExpandWords(ws, i) ==
    IF i = 44
    THEN ws
    ELSE CHOOSE out \in {ExpandWords(nws, ni) :
                            nws \in {Append(ws, nw) : nw \in {NextWord(ws, i)}},
                            ni \in {i + 1}} : TRUE

\* round key r (0..10): words 4r..4r+3
RoundKey(ws, r) == ws[4 * r + 1] \o ws[4 * r + 2] \o ws[4 * r + 3] \o ws[4 * r + 4]

\* round keys 0..10 as 11 blocks
KeyExpansion(k) ==
    CHOOSE out \in
        {<<RoundKey(ws, 0), RoundKey(ws, 1), RoundKey(ws, 2), RoundKey(ws, 3),
           RoundKey(ws, 4), RoundKey(ws, 5), RoundKey(ws, 6), RoundKey(ws, 7),
           RoundKey(ws, 8), RoundKey(ws, 9), RoundKey(ws, 10)>> :
            ws \in {ExpandWords(<<SubSeq(kv, 1, 4), SubSeq(kv, 5, 8),
                                   SubSeq(kv, 9, 12), SubSeq(kv, 13, 16)>>, 4) :
                        kv \in {k}}} : TRUE

\* one full round: SubBytes, ShiftRows, MixColumns, AddRoundKey
Round(s, k) ==
    CHOOSE out \in {XorBlock(mc, k) :
                      mc \in {MixColumns(sr) :
                                sr \in {ShiftRows(sb) : sb \in {SubBytes(s)}}}} : TRUE

\* the last round has no MixColumns
FinalRound(s, k) ==
    CHOOSE out \in {XorBlock(sr, k) : sr \in {ShiftRows(sb) : sb \in {SubBytes(s)}}} : TRUE

\* rounds r+1..10 applied to state s
RECURSIVE Rounds(_, _, _)
Rounds(s, rk, r) ==
    IF r = 9
    THEN FinalRound(s, rk[11])
    ELSE CHOOSE out \in {Rounds(n, rkv, nr) :
                            n \in {Round(s, rk[r + 2])}, rkv \in {rk}, nr \in {r + 1}} : TRUE

\* rk is the expanded key (round keys 0..10 at rk[1..11])
Aes128Encrypt(rk, block) ==
    CHOOSE out \in UNION {{Rounds(s0, rkv, 0) : s0 \in {XorBlock(bv, rkv[1])}} :
                            rkv \in {rk}, bv \in {block}} : TRUE

(***************************************************************************)
(* Ctr128BE: the 16 IV bytes are a 128-bit big-endian integer (byte 1 the  *)
(* most significant); block number pos of the keystream encrypts IV + pos. *)
(***************************************************************************)
\* carry into byte b (1..16) when pos is added to the block; pos < 2^31
RECURSIVE CarryIn(_, _, _)
CarryIn(blk, pos, b) ==
    IF b = BlockLen
    THEN pos
    ELSE CHOOSE out \in {(bv[nb] + CarryIn(bv, pv, nb)) \div 256 :
                            bv \in {blk}, pv \in {pos}, nb \in {b + 1}} : TRUE

\* carry out of the most significant byte: the 128-bit counter wrapped
CtrWraps(iv, pos) == (iv[1] + CarryIn(iv, pos, 1)) \div 256 > 0

Reverse(blk) == LET F(b) == blk[BlockLen + 1 - b] IN Block(F)

\* (BE128(iv) + pos) mod 2^128, as a block
BeAdd(iv, pos) ==
    CHOOSE out \in {LET F(b) == (ivv[b] + CarryIn(ivv, pv, b)) % 256 IN Block(F) :
                      ivv \in {iv}, pv \in {pos}} : TRUE

\* the counter taken little-endian, as Ctr128LE would
CtrBlockLE(iv, pos) == Reverse(BeAdd(Reverse(iv), pos))

\* the counter block Ctr128BE encrypts for block number pos
CtrBlock(iv, pos) == BeAdd(iv, pos)

\* keystream block number pos under (key, iv)
KeystreamBlock(k, iv, pos) == Aes128Encrypt(KeyExpansion(k), CtrBlock(iv, pos))

(***************************************************************************)
(* main.rs                                                                 *)
(***************************************************************************)
\* usize::to_le_bytes: byte b (0-based) is bits 8b..8b+7
RECURSIVE LeByte(_, _)
LeByte(v, b) == IF b = 0 THEN v % 256 ELSE LeByte(v \div 256, b - 1)

\* usize::to_be_bytes
ToBeBytes(v) ==
    <<LeByte(v, 7), LeByte(v, 6), LeByte(v, 5), LeByte(v, 4),
      LeByte(v, 3), LeByte(v, 2), LeByte(v, 1), LeByte(v, 0)>>

ToLeBytes(v) ==
    <<LeByte(v, 0), LeByte(v, 1), LeByte(v, 2), LeByte(v, 3),
      LeByte(v, 4), LeByte(v, 5), LeByte(v, 6), LeByte(v, 7)>>

\* only the low byte of the index reaches the IV
DeriveIVLowByte(chunk_idx) == <<0, 0, 0, 0, 0, 0, 0, 0, chunk_idx % 256, 0, 0, 0, 0, 0, 0, 0>>

\* the eight index bytes alone, without the zero half
DeriveIVShort(chunk_idx) == ToLeBytes(chunk_idx)

\* the index stored most significant byte first
DeriveIVBigEndian(chunk_idx) == <<0, 0, 0, 0, 0, 0, 0, 0>> \o ToBeBytes(chunk_idx)

\* let mut iv = [0u8; 16]; iv[8..16].copy_from_slice(&chunk_idx.to_le_bytes());
deriveIV(chunk_idx) == <<0, 0, 0, 0, 0, 0, 0, 0>> \o ToLeBytes(chunk_idx)

\* let key = [0x13_u8; 16];
KeyByte == 19

KeyLen == 16

Key == LET F(b) == KeyByte IN Block(F)

(***************************************************************************)
(* Bounds of the model                                                     *)
(***************************************************************************)
\* NUM_PASSWORDS ranges over 0..MaxN
MaxN == 4

\* CHUNK_SIZE ranges over 1..MaxC
MaxC == 3

\* the thread pool has 1..MaxWorkers worker threads
MaxWorkers == 2

\* start_time.elapsed() returns 0..MaxElapsed clock ticks
MaxElapsed == 1

\* NUM_PASSWORDS ranges over 0..FairMaxN in the fairly scheduled runs
FairMaxN == 3

\* NUM_PASSWORDS ranges over 0..MaxSampleN in the runs of the reporter on
\* its own
MaxSampleN == 7

\* for i in 0..5.min(NUM_PASSWORDS)
SampleCount == 5

\* a record of the buffer that was never written (Vec::set_len over
\* with_capacity storage)
Uninit == <<>>

\* Storage that the allocator hands back without clearing it holds whatever
\* was there before: zero bytes on a fresh page, otherwise any 16 bytes
\* (addresses and sizes of the allocator, text left by the runtime), other
\* ones in every run.  A record of the buffer is therefore kept as the bytes
\* that are known together with what they rest on:
\*   [stale |-> FALSE, bytes |-> b]  the record holds the bytes b;
\*   [stale |-> TRUE,  bytes |-> b]  the record holds s XOR b, where s is the
\*                                   non-zero block the storage held there.
\* The s of one record is the same block at every read of it; the s of two
\* records are independent of each other.
Known(b) == [stale |-> FALSE, bytes |-> b]

OverStale(b) == [stale |-> TRUE, bytes |-> b]

\* What a read of a never-written record can return: the zero block of a
\* fresh page, or the non-zero block that recycled storage holds there.
UninitContents == {Known(ZeroBlock), OverStale(ZeroBlock)}

\* data[i] ^= keystream[i] over one record: the keystream block ks is XORed
\* into what the record holds
XorRecord(old, ks) == [stale |-> old.stale, bytes |-> XorBlock(old.bytes, ks)]

\* the value a read of record r (0-based) of buffer buf can return
ReadRecord(buf, r) == IF buf[r + 1] = Uninit THEN UninitContents ELSE {buf[r + 1]}

NoChunk == 0 - 1

Min(a, b) == IF a < b THEN a ELSE b

VARIABLES
    N,            \* NUM_PASSWORDS
    C,            \* CHUNK_SIZE
    workers,      \* threads of the rayon pool
    pc,           \* where the main thread is
    allocated,    \* the Vec's storage is reserved
    passwords,    \* the buffer: record r (0-based) is passwords[r + 1]
    num_chunks,   \* NUM_PASSWORDS / CHUNK_SIZE, or NoChunk before line 71
    key,          \* the run-wide key, or Uninit before line 78
    start_time,   \* TRUE once Instant::now() was taken
    task,         \* task[i + 1]: the closure call for chunk i
    worker,       \* worker[w]: the chunk thread w is running, or NoChunk
    duration,     \* start_time.elapsed() in ticks, or -1
    rate,         \* NUM_PASSWORDS / secs
    i,            \* the sample loop's index
    sample,       \* the records the sample loop has printed
    ctrlog,       \* history: ctrlog[i + 1] lists the counter blocks chunk i encrypted
    writes,       \* history: writes[r + 1] lists the chunks that wrote record r
    reads,        \* history: every read of a record
    probe_idx,    \* the chunk indices handed to deriveIV on its own
    probe_iv,     \* the IVs deriveIV returned for probe_idx
    probe_pos,    \* a block offset handed to the counter on its own
    probe_ctr     \* the counter block for (probe_iv[1], probe_pos)

vars == <<N, C, workers, pc, allocated, passwords, num_chunks, key, start_time,
          task, worker, duration, rate, i, sample, ctrlog, writes, reads,
          probe_idx, probe_iv, probe_pos, probe_ctr>>

config == <<N, C, workers, probe_idx, probe_iv, probe_pos, probe_ctr>>

history == <<ctrlog, writes, reads>>

NoRate == [kind |-> "none", num |-> 0, den |-> 1]

Init ==
    /\ N \in 0..MaxN
    /\ C \in 1..MaxC
    /\ workers \in 1..MaxWorkers
    /\ pc = "check"
    /\ allocated = FALSE
    /\ passwords = <<>>
    /\ num_chunks = NoChunk
    /\ key = Uninit
    /\ start_time = FALSE
    /\ task = <<>>
    /\ worker = [w \in 1..workers |-> NoChunk]
    /\ duration = 0 - 1
    /\ rate = NoRate
    /\ i = 0
    /\ sample = <<>>
    /\ ctrlog = <<>>
    /\ writes = <<>>
    /\ reads = {}
    /\ probe_idx = <<>>
    /\ probe_iv = <<>>
    /\ probe_pos = 0
    /\ probe_ctr = <<>>

\* the divisibility check left out
CheckConfigSkipped ==
    /\ pc = "check"
    /\ pc' = "alloc"
    /\ UNCHANGED <<config, allocated, passwords, num_chunks, key, start_time, task,
                   worker, duration, rate, i, sample, history>>

\* if NUM_PASSWORDS % CHUNK_SIZE != 0 { panic!(..) }
CheckConfig ==
    /\ pc = "check"
    /\ pc' = IF N % C # 0 THEN "config_error" ELSE "alloc"
    /\ UNCHANGED <<config, allocated, passwords, num_chunks, key, start_time, task,
                   worker, duration, rate, i, sample, history>>

\* Vec::with_capacity(NUM_PASSWORDS); set_len(NUM_PASSWORDS): nothing is written
Allocate ==
    /\ pc = "alloc"
    /\ pc' = "setup"
    /\ allocated' = TRUE
    /\ passwords' = [r \in 1..N |-> Uninit]
    /\ writes' = [r \in 1..N |-> <<>>]
    /\ UNCHANGED <<config, num_chunks, key, start_time, task, worker, duration, rate,
                   i, sample, ctrlog, reads>>

\* with_capacity aborts when the storage cannot be reserved
AllocateFail ==
    /\ pc = "alloc"
    /\ N > 0
    /\ pc' = "alloc_error"
    /\ UNCHANGED <<config, allocated, passwords, num_chunks, key, start_time, task,
                   worker, duration, rate, i, sample, history>>

\* let num_chunks = NUM_PASSWORDS / CHUNK_SIZE; let key = [0x13_u8; 16];
Setup ==
    /\ pc = "setup"
    /\ pc' = "start"
    /\ num_chunks' = N \div C
    /\ key' = Key
    /\ UNCHANGED <<config, allocated, passwords, start_time, task, worker, duration,
                   rate, i, sample, history>>

\* let start_time = Instant::now();
StartTimer ==
    /\ pc = "start"
    /\ pc' = "dispatch"
    /\ start_time' = TRUE
    /\ UNCHANGED <<config, allocated, passwords, num_chunks, key, task, worker,
                   duration, rate, i, sample, history>>

\* one chunk too many
ChunkCountOffByOne(len, size) == len \div size + 1

\* slice.par_chunks_mut(size): ceil(len / size) chunks
ChunkCount(len, size) == (len + size - 1) \div size

\* chunk idx of par_chunks_mut(size).enumerate(): the records it spans
ChunkStart(idx, size) == idx * size

\* the view of a chunk running on to the end of the slice
ChunkLenToEnd(len, idx, size) == len - ChunkStart(idx, size)

ChunkLen(len, idx, size) == Min(size, len - ChunkStart(idx, size))

NewTask(len, idx, size) ==
    [st |-> "pending", start |-> ChunkStart(idx, size), len |-> ChunkLen(len, idx, size),
     iv |-> Uninit, ctr |-> 0, runs |-> 0]

\* the parallel iterator is built but never driven: no closure call is made
\* and main does not block
DispatchLazy ==
    /\ pc = "dispatch"
    /\ pc' = "elapsed"
    /\ UNCHANGED <<config, allocated, passwords, num_chunks, key, start_time, task,
                   worker, duration, rate, i, sample, history>>

\* passwords.par_chunks_mut(CHUNK_SIZE).enumerate().for_each(..): one closure
\* call per chunk is handed to the pool and main blocks
Dispatch ==
    /\ pc = "dispatch"
    /\ pc' = "join"
    /\ task' = [t \in 1..ChunkCount(Len(passwords), C) |-> NewTask(Len(passwords), t - 1, C)]
    /\ ctrlog' = [t \in 1..ChunkCount(Len(passwords), C) |-> <<>>]
    /\ UNCHANGED <<config, allocated, passwords, num_chunks, key, start_time, worker,
                   duration, rate, i, sample, writes, reads>>

(***************************************************************************)
(* The closure of for_each, run by a pool thread for one chunk             *)
(***************************************************************************)
\* history entry for a read of record r (0-based) by `by`
ReadLog(r, by) ==
    [rec |-> r, by |-> by, written |-> passwords[r + 1] # Uninit,
     complete |-> \A q \in 1..Len(passwords) : passwords[q] # Uninit]

\* lines 90-100: the byte view of the chunk, the IV and the cipher
TaskStart(w, idx) ==
    /\ pc = "join"
    /\ worker[w] = NoChunk
    /\ task[idx + 1].st = "pending"
    /\ task' = [task EXCEPT ![idx + 1].st = "running",
                            ![idx + 1].iv = deriveIV(idx),
                            ![idx + 1].ctr = 0,
                            ![idx + 1].runs = @ + 1]
    /\ worker' = [worker EXCEPT ![w] = idx]
    /\ UNCHANGED <<config, pc, allocated, passwords, num_chunks, key, start_time,
                   duration, rate, i, sample, history>>

\* cipher.apply_keystream(chunk_bytes), one 16-byte block: the next keystream
\* block is XORed into the record in place
TaskFill(w) ==
    /\ worker[w] # NoChunk
    /\ LET idx == worker[w]
           t == task[idx + 1]
           r == t.start + t.ctr
           ks == KeystreamBlock(key, t.iv, t.ctr)
       IN  /\ t.st = "running"
           /\ t.ctr < t.len
           /\ task' = [task EXCEPT ![idx + 1].ctr = t.ctr + 1]
           /\ ctrlog' = [ctrlog EXCEPT ![idx + 1] = Append(@, CtrBlock(t.iv, t.ctr))]
           /\ writes' = [writes EXCEPT ![r + 1] = Append(@, idx)]
           /\ reads' = reads \cup {ReadLog(r, "task")}
           /\ UNCHANGED <<config, pc, allocated, num_chunks, key, start_time, worker,
                          duration, rate, i, sample>>
           /\ \E ksv \in {ks} :      \* the block is computed once
              \E old \in ReadRecord(passwords, r) :
                 passwords' = [passwords EXCEPT ![r + 1] = XorRecord(old, ksv)]

\* the closure returns but the thread is not handed back to the pool
TaskEndStuck(w) ==
    /\ worker[w] # NoChunk
    /\ LET idx == worker[w]
           t == task[idx + 1]
       IN  /\ t.st = "running"
           /\ t.ctr = t.len
           /\ task' = [task EXCEPT ![idx + 1].st = "done"]
    /\ worker' = worker
    /\ UNCHANGED <<config, pc, allocated, passwords, num_chunks, key, start_time,
                   duration, rate, i, sample, history>>

\* the closure returns: the cipher is dropped and the thread is free again
TaskEnd(w) ==
    /\ worker[w] # NoChunk
    /\ LET idx == worker[w]
           t == task[idx + 1]
       IN  /\ t.st = "running"
           /\ t.ctr = t.len
           /\ task' = [task EXCEPT ![idx + 1].st = "done"]
    /\ worker' = [worker EXCEPT ![w] = NoChunk]
    /\ UNCHANGED <<config, pc, allocated, passwords, num_chunks, key, start_time,
                   duration, rate, i, sample, history>>

(***************************************************************************)
(* main after the fork                                                     *)
(***************************************************************************)
\* the join taken for complete at the first finished task
AnyTaskDone == \E t \in 1..Len(task) : task[t].st = "done"

AllTasksDone == \A t \in 1..Len(task) : task[t].st = "done"

\* for_each returns once every closure call has returned
Join ==
    /\ pc = "join"
    /\ AllTasksDone
    /\ pc' = "elapsed"
    /\ UNCHANGED <<config, allocated, passwords, num_chunks, key, start_time, task,
                   worker, duration, rate, i, sample, history>>

\* let duration = start_time.elapsed();
Elapsed ==
    /\ pc = "elapsed"
    /\ pc' = "report"
    /\ \E d \in 0..MaxElapsed : duration' = d
    /\ UNCHANGED <<config, allocated, passwords, num_chunks, key, start_time, task,
                   worker, rate, i, sample, history>>

\* f64 division NUM_PASSWORDS as f64 / secs: x/0 is inf, 0/0 is NaN
Divide(num, den) ==
    IF den # 0 THEN [kind |-> "finite", num |-> num, den |-> den]
    ELSE IF num = 0 THEN [kind |-> "nan", num |-> 0, den |-> 0]
    ELSE [kind |-> "inf", num |-> num, den |-> 0]

\* let secs = duration.as_secs_f64(); let rate = (NUM_PASSWORDS as f64) / secs;
Report ==
    /\ pc = "report"
    /\ pc' = "sample"
    /\ rate' = Divide(N, duration)
    /\ i' = 0
    /\ UNCHANGED <<config, allocated, passwords, num_chunks, key, start_time, task,
                   worker, duration, sample, history>>

\* the sample loop moving each record out of the buffer (mem::take) as it
\* prints it
SampleTake ==
    /\ pc = "sample"
    /\ IF i < Min(SampleCount, N)
       THEN /\ \E v \in ReadRecord(passwords, i) : sample' = Append(sample, v)
            /\ passwords' = [passwords EXCEPT ![i + 1] = Known(ZeroBlock)]
            /\ reads' = reads \cup {ReadLog(i, "sample")}
            /\ i' = i + 1
            /\ pc' = pc
       ELSE /\ pc' = "done"
            /\ UNCHANGED <<sample, reads, i, passwords>>
    /\ UNCHANGED <<config, allocated, num_chunks, key, start_time, task,
                   worker, duration, rate, ctrlog, writes>>

\* the loop running to 5 whatever NUM_PASSWORDS is: passwords[i] panics
\* once i reaches the length of the buffer
SampleUnclamped ==
    /\ pc = "sample"
    /\ IF i < SampleCount
       THEN IF i < N
            THEN /\ \E v \in ReadRecord(passwords, i) : sample' = Append(sample, v)
                 /\ reads' = reads \cup {ReadLog(i, "sample")}
                 /\ i' = i + 1
                 /\ pc' = pc
            ELSE /\ pc' = "index_panic"
                 /\ UNCHANGED <<sample, reads, i>>
       ELSE /\ pc' = "done"
            /\ UNCHANGED <<sample, reads, i>>
    /\ UNCHANGED <<config, allocated, passwords, num_chunks, key, start_time, task,
                   worker, duration, rate, ctrlog, writes>>

\* for i in 0..5.min(NUM_PASSWORDS) { println!(.., i, passwords[i]); }
Sample ==
    /\ pc = "sample"
    /\ IF i < Min(SampleCount, N)
       THEN /\ \E v \in ReadRecord(passwords, i) : sample' = Append(sample, v)
            /\ reads' = reads \cup {ReadLog(i, "sample")}
            /\ i' = i + 1
            /\ pc' = pc
       ELSE /\ pc' = "done"
            /\ UNCHANGED <<sample, reads, i>>
    /\ UNCHANGED <<config, allocated, passwords, num_chunks, key, start_time, task,
                   worker, duration, rate, ctrlog, writes>>

Next ==
    \/ CheckConfig
    \/ Allocate
    \/ AllocateFail
    \/ Setup
    \/ StartTimer
    \/ Dispatch
    \/ \E w \in 1..workers : \E idx \in 0..(Len(task) - 1) : TaskStart(w, idx)
    \/ \E w \in 1..workers : TaskFill(w)
    \/ \E w \in 1..workers : TaskEnd(w)
    \/ Join
    \/ Elapsed
    \/ Report
    \/ Sample

Spec == Init /\ [][Next]_vars

\* the steps of the main thread that cannot fail
MainStep ==
    \/ CheckConfig
    \/ Setup
    \/ StartTimer
    \/ Dispatch
    \/ Join
    \/ Elapsed
    \/ Report
    \/ Sample

\* the steps of the threads of the pool
PoolStep ==
    \/ \E w \in 1..workers : \E idx \in 0..(Len(task) - 1) : TaskStart(w, idx)
    \/ \E w \in 1..workers : TaskEnd(w)
    \/ \E w \in 1..workers : TaskFill(w)

\* the operating system keeps running the main thread while it can take a
\* step, and the pool while one of its threads can; which thread of the
\* pool runs is not prescribed, and the allocation is not forced to succeed
FairInit == Init /\ N <= FairMaxN

FairSpec ==
    /\ FairInit
    /\ [][Next]_vars
    /\ WF_vars(MainStep)
    /\ WF_vars(PoolStep)

\* the states of one run named by the design: Configured, Allocated,
\* Generating, Completed, Reported, or Failed after a panic or abort
Phase ==
    CASE pc \in {"check", "alloc"} -> "Configured"
      [] pc \in {"setup", "start", "dispatch"} -> "Allocated"
      [] pc = "join" -> "Generating"
      [] pc \in {"elapsed", "report", "sample"} -> "Completed"
      [] pc = "done" -> "Reported"
      [] OTHER -> "Failed"

(***************************************************************************)
(* deriveIV on its own: the IV construction of lines 95-97 applied to      *)
(* chunk indices of up to four bytes, two at a time                        *)
(***************************************************************************)
\* byte values tried at each of the four low bytes of a chunk index
ProbeBytes == {0, 1, 255}

\* the top byte keeps the index below 2^31
ProbeTopBytes == {0, 1, 127}

ProbeIndices ==
    { b0 + 256 * b1 + 65536 * b2 + 16777216 * b3 :
        b0 \in ProbeBytes, b1 \in ProbeBytes, b2 \in ProbeBytes, b3 \in ProbeTopBytes }

IdleRun ==
    /\ N = 0
    /\ C = 1
    /\ workers = 1
    /\ pc = "check"
    /\ allocated = FALSE
    /\ passwords = <<>>
    /\ num_chunks = NoChunk
    /\ key = Uninit
    /\ start_time = FALSE
    /\ task = <<>>
    /\ worker = <<NoChunk>>
    /\ duration = 0 - 1
    /\ rate = NoRate
    /\ i = 0
    /\ sample = <<>>
    /\ ctrlog = <<>>
    /\ writes = <<>>
    /\ reads = {}

IVInit ==
    /\ IdleRun
    /\ probe_idx \in ProbeIndices \X ProbeIndices
    /\ probe_iv = <<>>
    /\ probe_pos = 0
    /\ probe_ctr = <<>>

DeriveProbe ==
    /\ probe_iv = <<>>
    /\ probe_iv' = <<deriveIV(probe_idx[1]), deriveIV(probe_idx[2])>>
    /\ UNCHANGED <<N, C, workers, probe_idx, probe_pos, probe_ctr, pc, allocated,
                   passwords, num_chunks, key, start_time, task, worker, duration,
                   rate, i, sample, history>>

IVNext == DeriveProbe

IVSpec == IVInit /\ [][IVNext]_vars

(***************************************************************************)
(* The counter on its own: the counter block Ctr128BE encrypts for block   *)
(* number probe_pos of the chunk with index probe_idx[1] (lines 95-102)    *)
(***************************************************************************)
\* block offsets within a chunk, up to 2^31 - 1
ProbeOffsets == {0, 1, 255, 256, 65535, 65536, 999999, 16777216, 2147483647}

CtrInit ==
    /\ IdleRun
    /\ probe_idx \in {<<idx>> : idx \in ProbeIndices}
    /\ probe_iv = <<>>
    /\ probe_pos \in ProbeOffsets
    /\ probe_ctr = <<>>

CtrProbe ==
    /\ probe_ctr = <<>>
    /\ probe_iv' = <<deriveIV(probe_idx[1])>>
    /\ probe_ctr' = CtrBlock(deriveIV(probe_idx[1]), probe_pos)
    /\ UNCHANGED <<N, C, workers, probe_idx, probe_pos, pc, allocated, passwords,
                   num_chunks, key, start_time, task, worker, duration, rate, i,
                   sample, history>>

CtrNext == CtrProbe

CtrSpec == CtrInit /\ [][CtrNext]_vars

(***************************************************************************)
(* The reporter on its own (lines 105-131): a run of n records in chunks   *)
(* of c, taken up where for_each has just returned                         *)
(***************************************************************************)
\* the buffer a run leaves when the storage it was given is fresh zero pages
ZeroPageRun(n, c) ==
    [r \in 1..n |->
        XorRecord(Known(ZeroBlock), KeystreamBlock(Key, deriveIV((r - 1) \div c), (r - 1) % c))]

\* what the storage of a buffer of n records can hold after set_len
RECURSIVE StorageContents(_)
StorageContents(n) ==
    IF n = 0 THEN {<<>>}
    ELSE {Append(g, b) : g \in StorageContents(n - 1), b \in UninitContents}

\* the keystream of a run: for record r (1-based) block (r - 1) % c of the
\* cipher of chunk (r - 1) / c
RunKeystream(n, c) ==
    [r \in 1..n |-> KeystreamBlock(Key, deriveIV((r - 1) \div c), (r - 1) % c)]

\* the buffer a run with keystream ks leaves when its storage held g
FilledRun(n, ks, g) == [r \in 1..n |-> XorRecord(g[r], ks[r])]

\* the task of chunk idx at its end
EndedTask(n, idx, c) ==
    [st |-> "done", start |-> ChunkStart(idx, c), len |-> ChunkLen(n, idx, c),
     iv |-> deriveIV(idx), ctr |-> ChunkLen(n, idx, c), runs |-> 1]

JoinedRun(n, c, buf) ==
    /\ N = n
    /\ C = c
    /\ workers = 1
    /\ pc = "elapsed"
    /\ allocated = TRUE
    /\ passwords = buf
    /\ num_chunks = n \div c
    /\ key = Key
    /\ start_time = TRUE
    /\ task = [t \in 1..ChunkCount(n, c) |-> EndedTask(n, t - 1, c)]
    /\ worker = <<NoChunk>>
    /\ duration = 0 - 1
    /\ rate = NoRate
    /\ i = 0
    /\ sample = <<>>
    /\ ctrlog = [t \in 1..ChunkCount(n, c) |->
                    [k \in 1..ChunkLen(n, t - 1, c) |-> CtrBlock(deriveIV(t - 1), k - 1)]]
    /\ writes = [r \in 1..n |-> <<(r - 1) \div c>>]
    /\ reads = {[rec |-> r, by |-> "task", written |-> FALSE, complete |-> FALSE] :
                   r \in 0..(n - 1)}
    /\ probe_idx = <<>>
    /\ probe_iv = <<>>
    /\ probe_pos = 0
    /\ probe_ctr = <<>>

SampleInit ==
    \E n \in 0..MaxSampleN : \E c \in 1..MaxSampleN :
        /\ n % c = 0
        /\ \E ks \in {RunKeystream(n, c)} : \E g \in StorageContents(n) :
              JoinedRun(n, c, FilledRun(n, ks, g))

SampleNext ==
    \/ Elapsed
    \/ Report
    \/ Sample

SampleSpec == SampleInit /\ [][SampleNext]_vars

(***************************************************************************)
(* Properties                                                              *)
(***************************************************************************)
Dispatched == pc \in {"join", "elapsed", "report", "sample", "done"}

Joined == Phase \in {"Completed", "Reported"}

\* b is the big-endian 128-bit integer a plus one, and a is not 2^128 - 1
BeSuccessor(a, b) ==
    \E p \in 1..BlockLen :
        /\ b[p] = a[p] + 1
        /\ \A q \in 1..(p - 1) : b[q] = a[q]
        /\ \A q \in (p + 1)..BlockLen : a[q] = 255 /\ b[q] = 0

\* C1: every chunk encrypts one counter block per record it produces, the
\* first being its IV itself (offset 0) and each next one the big-endian
\* successor of the one before, never wrapping past 2^128 - 1; the counter
\* blocks of two distinct chunks are disjoint.
C1_CounterBlocks ==
    /\ \A t \in 1..Len(task) :
          LET log == ctrlog[t]
          IN  /\ Len(log) = task[t].ctr
              /\ Len(log) <= C
              /\ \A k \in 1..Len(log) : writes[(t - 1) * C + k] = <<t - 1>>
              /\ Len(log) >= 1 => log[1] = deriveIV(t - 1)
              /\ \A k \in 1..(Len(log) - 1) : BeSuccessor(log[k], log[k + 1])
              /\ \A k \in 1..Len(log) : ~CtrWraps(deriveIV(t - 1), k - 1)
    /\ \A t1 \in 1..Len(task) : \A t2 \in 1..Len(task) :
          t1 # t2 =>
             \A k1 \in 1..Len(ctrlog[t1]) : \A k2 \in 1..Len(ctrlog[t2]) :
                ctrlog[t1][k1] # ctrlog[t2][k2]

\* two chunks have each consumed two counter blocks
C1_Witness ==
    \E t1 \in 1..Len(task) : \E t2 \in 1..Len(task) :
        t1 # t2 /\ Len(ctrlog[t1]) >= 2 /\ Len(ctrlog[t2]) >= 2

\* C2: the buffer after the join is a function of (key, N, C) alone, so two
\* runs with the same key, N and C end with the same bytes: every run ends
\* with the buffer of the run on fresh zero pages.
C2_Deterministic == Joined => passwords = ZeroPageRun(N, C)

\* a run of two chunks on two threads has ended with the zero-page buffer
C2_Witness ==
    Joined /\ N = 4 /\ C = 2 /\ workers = 2 /\ passwords = ZeroPageRun(N, C)

\* C3: the dispatched chunks are exactly N / C chunks, chunk i spanning the
\* C records [i * C, (i + 1) * C), and every record index of [0, N) lies in
\* exactly one chunk.
C3_Partition ==
    Dispatched =>
        /\ Len(task) = N \div C
        /\ num_chunks = Len(task)
        /\ \A t \in 1..Len(task) :
              /\ task[t].start = (t - 1) * C
              /\ task[t].len = C
              /\ task[t].start + task[t].len <= N
        /\ \A r \in 0..(N - 1) :
              Cardinality({t \in 1..Len(task) :
                  task[t].start <= r /\ r < task[t].start + task[t].len}) = 1

\* a run with two chunks of two records was dispatched
C3_Witness == pc = "join" /\ Len(task) >= 2 /\ C >= 2

\* C4: after the join, record i * C + k is keystream block k under
\* (key, deriveIV(i)), for every chunk i and every k in 0..C-1.
C4_Keystream ==
    Joined =>
        \A t \in 1..Len(task) : \A k \in 0..(C - 1) :
            passwords[(t - 1) * C + k + 1] = Known(KeystreamBlock(key, deriveIV(t - 1), k))

\* C5: deriveIV(idx) is 16 bytes; bytes 0..7 are zero and bytes 8..15 are idx
\* in little-endian order (for idx < 2^31 bytes 12..15 are zero); the IV of
\* chunk 0 is all zero and the IV of chunk 1 has byte 8 = 1 and the rest zero.
C5_IVLayout ==
    probe_iv # <<>> =>
        \A p \in 1..2 :
            LET iv == probe_iv[p]
                idx == probe_idx[p]
            IN  /\ Len(iv) = BlockLen
                /\ \A b \in 1..BlockLen : iv[b] \in Byte
                /\ \A b \in 1..8 : iv[b] = 0
                /\ \A b \in 13..16 : iv[b] = 0
                /\ iv[12] < 128
                /\ iv[9] + 256 * iv[10] + 65536 * iv[11] + 16777216 * iv[12] = idx
                /\ idx = 0 => iv = ZeroBlock
                /\ idx = 1 => iv = <<0, 0, 0, 0, 0, 0, 0, 0, 1, 0, 0, 0, 0, 0, 0, 0>>

\* the IVs of chunk 1 and of chunk 256 were derived
C5_Witness == probe_iv # <<>> /\ probe_idx = <<1, 256>>

\* C6: distinct chunk indices get distinct IVs.
C6_IVInjective ==
    (probe_iv # <<>> /\ probe_idx[1] # probe_idx[2]) => probe_iv[1] # probe_iv[2]

\* the IVs of chunks 0 and 256, which agree in their low byte, were derived
C6_Witness == probe_iv # <<>> /\ probe_idx = <<0, 256>>

\* Two records can hold the same 16 bytes: known bytes are compared; bytes
\* over a non-zero stale block s equal known bytes when s is the XOR of the
\* two, which is non-zero when they differ; and the stale blocks of two
\* records are independent, so one of them can be the other XOR any block.
CanCoincide(a, b) ==
    IF a.stale /\ b.stale THEN TRUE
    ELSE IF a.stale \/ b.stale THEN a.bytes # b.bytes
    ELSE a.bytes = b.bytes

\* C7: after the join any two records at distinct indices differ, whatever
\* the storage of the buffer held.
C7_Unique ==
    Joined =>
        \A r1 \in 1..Len(passwords) : \A r2 \in 1..Len(passwords) :
            r1 # r2 => ~CanCoincide(passwords[r1], passwords[r2])

\* C8: when N mod C # 0 the run gets no further than the configuration
\* check: it ends in the ConfigError panic with no buffer reserved, no task
\* dispatched or run, no timer started and no record read or written.
C8_ConfigError ==
    N % C # 0 =>
        /\ pc \in {"check", "config_error"}
        /\ allocated = FALSE
        /\ passwords = <<>>
        /\ task = <<>>
        /\ \A w \in 1..workers : worker[w] = NoChunk
        /\ start_time = FALSE
        /\ writes = <<>>
        /\ reads = {}

\* a misconfigured run has panicked
C8_Witness == pc = "config_error" /\ N % C # 0 /\ N > C

\* C9: the run is past the join only when every task is done; elapsed time,
\* rate and sample exist only past the join; no record is read before every
\* record of the buffer has been written; tasks exist only after the start
\* instant was taken.
C9_JoinBarrier ==
    /\ Joined => AllTasksDone
    /\ (duration >= 0 \/ rate # NoRate \/ sample # <<>>) => Joined
    /\ \A e \in reads : e.complete
    /\ task # <<>> => start_time

\* C10: the run is Completed or Reported only if every chunk's task ran to
\* its end exactly once and every record of the buffer was filled; no task
\* is ever run a second time.
C10_FailFast ==
    /\ \A t \in 1..Len(task) : task[t].runs <= 1
    /\ Joined =>
          /\ \A t \in 1..Len(task) :
                task[t].st = "done" /\ task[t].runs = 1 /\ task[t].ctr = task[t].len
          /\ \A r \in 1..Len(passwords) : passwords[r] # Uninit /\ Len(writes[r]) = 1
          /\ Len(passwords) = N

\* a run of several chunks was reported
C10_Witness == Phase = "Reported" /\ Len(task) >= 2

\* the states of a run in the order the design names them
PhaseOrder == <<"Configured", "Allocated", "Generating", "Completed", "Reported">>

\* one step of a run stays in its state, moves to the next state of the
\* order, or leaves Configured for Failed (the panic of the configuration
\* check, the abort of the allocation)
LifecycleStep ==
    \/ Phase' = Phase
    \/ \E n \in 1..4 : Phase = PhaseOrder[n] /\ Phase' = PhaseOrder[n + 1]
    \/ Phase = "Configured" /\ Phase' = "Failed"

\* C11: a run starts Configured and every step keeps its state or moves to
\* the next one of Configured -> Allocated -> Generating -> Completed ->
\* Reported (so no state is skipped, re-entered or left for an earlier one);
\* Configured -> Allocated is taken only with N mod C = 0 and the buffer
\* allocated, Allocated -> Generating only by the dispatch of the chunk
\* tasks, Completed -> Reported only with the duration, the rate and the
\* sample produced.
C11_Lifecycle ==
    /\ Phase = "Configured"
    /\ [][/\ LifecycleStep
          /\ (Phase = "Configured" /\ Phase' = "Allocated") =>
                 (N % C = 0 /\ allocated' /\ Len(passwords') = N)
          /\ (Phase = "Allocated" /\ Phase' = "Generating") =>
                 (pc = "dispatch" /\ Len(task') = N \div C)
          /\ (Phase = "Generating" /\ Phase' = "Completed") => AllTasksDone
          /\ (Phase = "Completed" /\ Phase' = "Reported") =>
                 (duration >= 0 /\ rate # NoRate /\ Len(sample) = Min(SampleCount, N))
       ]_vars

\* a run of three chunks went through every state and printed its sample
C11_Witness == pc = "done" /\ N = 3 /\ C = 1 /\ Len(sample) = 3 /\ duration = 1

\* C12: for N > 0 the reported rate N / secs is a finite number greater
\* than zero, its divisor, the measured duration, being greater than zero.
C12_RateSanity ==
    (N > 0 /\ rate # NoRate) =>
        /\ duration > 0
        /\ rate.kind = "finite"
        /\ rate.num > 0
        /\ rate.den > 0

\* a run of four records that took one tick reported its rate
C12_Witness == N = 4 /\ duration = 1 /\ rate = Divide(4, 1)

\* the chunk whose span holds record r (0-based)
OwnerOf(r) == r \div C

\* C13: under every interleaving, a record changes only in a step of a
\* thread that is running the task of the chunk owning it (index div C),
\* and that step is logged as the one write of the record; a record is
\* written at most once, exactly once by the time of the join, and only by
\* its owner, so no two tasks write the same record; the key, once set, is
\* the 16 bytes 0x13 and no step changes it.
C13_ExclusiveWrites ==
    /\ [](/\ \A r \in 1..Len(writes) :
               /\ Len(writes[r]) <= 1
               /\ \A n \in 1..Len(writes[r]) : writes[r][n] = OwnerOf(r - 1)
          /\ Joined => \A r \in 1..Len(writes) : Len(writes[r]) = 1
          /\ task # <<>> => key = Key)
    /\ [][/\ \A r \in 1..Len(passwords) :
                passwords'[r] # passwords[r] =>
                   /\ \E w \in 1..workers : worker[w] = OwnerOf(r - 1)
                   /\ task[OwnerOf(r - 1) + 1].st = "running"
                   /\ writes'[r] = Append(writes[r], OwnerOf(r - 1))
                   /\ \A q \in 1..Len(passwords) : q # r => passwords'[q] = passwords[q]
          /\ key # Uninit => key' = key
       ]_vars

\* two threads are running two chunks at once and each has written a record
C13_Witness ==
    \E w1 \in 1..workers : \E w2 \in 1..workers :
        /\ w1 # w2
        /\ worker[w1] # NoChunk
        /\ worker[w2] # NoChunk
        /\ task[worker[w1] + 1].ctr >= 1
        /\ task[worker[w2] + 1].ctr >= 1
        /\ task[worker[w1] + 1].ctr < task[worker[w1] + 1].len

\* C14: the counter block of chunk i at block offset k carries i unchanged
\* in its chunk-index bytes (bytes 8..15, little-endian), the increment
\* touching none of them.
C14_IndexPreserved ==
    probe_ctr # <<>> =>
        /\ \A b \in 9..BlockLen : probe_ctr[b] = probe_iv[1][b]
        /\ <<probe_ctr[9], probe_ctr[10], probe_ctr[11], probe_ctr[12],
             probe_ctr[13], probe_ctr[14], probe_ctr[15], probe_ctr[16]>>
              = ToLeBytes(probe_idx[1])

\* C14 as amended: for a chunk index i and a block offset k below 2^31 the
\* counter block has bytes 0..7 zero, bytes 8..11 the low four bytes of i
\* little-endian, unchanged, and bytes 12..15 the offset k big-endian: the
\* increment changes bytes 12..15 of the chunk-index field, so for k > 0
\* the field as a whole no longer reads as i.
C14_IndexOverlap ==
    probe_ctr # <<>> =>
        /\ Len(probe_ctr) = BlockLen
        /\ \A b \in 1..8 : probe_ctr[b] = 0
        /\ probe_ctr[12] < 128
        /\ probe_ctr[9] + 256 * probe_ctr[10] + 65536 * probe_ctr[11]
              + 16777216 * probe_ctr[12] = probe_idx[1]
        /\ probe_ctr[13] < 128
        /\ 16777216 * probe_ctr[13] + 65536 * probe_ctr[14] + 256 * probe_ctr[15]
              + probe_ctr[16] = probe_pos
        /\ probe_pos > 0 =>
              <<probe_ctr[9], probe_ctr[10], probe_ctr[11], probe_ctr[12],
                probe_ctr[13], probe_ctr[14], probe_ctr[15], probe_ctr[16]>>
                 # ToLeBytes(probe_idx[1])

\* the counter block of chunk 257 at block offset 999999 was formed
C14_Witness == probe_ctr # <<>> /\ probe_idx = <<257>> /\ probe_pos = 999999

\* C15: from the join on no step changes a record of the buffer: taking the
\* duration, computing the rate and sampling leave it as the tasks left
\* it, and every sampled value is the record still in the buffer.
C15_ReadOnlyReport ==
    /\ [][Joined => (Joined' /\ passwords' = passwords)]_vars
    /\ [](Joined => \A n \in 1..Len(sample) : sample[n] = passwords[n])

\* a finished run has reported its rate and sampled three records
C15_Witness == pc = "done" /\ rate # NoRate /\ Len(sample) = 3 /\ C = 3

\* C16: under fair scheduling a run whose configuration is valid and whose
\* buffer was allocated, wherever it stands (before the dispatch, in
\* Generating with tasks pending or running, or past the join), reaches
\* Reported with all N / C chunk tasks at their end: no run stays in
\* Generating for ever.
C16_Termination ==
    (pc \in {"setup", "start", "dispatch", "join", "elapsed", "report", "sample"})
        ~> (pc = "done" /\ Len(task) = N \div C /\ AllTasksDone)

\* one thread ran three chunk tasks one after the other and the run was
\* reported
C16_Witness ==
    /\ pc = "done"
    /\ workers = 1
    /\ Len(task) = 3
    /\ \A t \in 1..3 : task[t].st = "done"

\* the outcomes of the run and of a chunk task that the code has
RunPositions ==
    {"check", "config_error", "alloc", "alloc_error", "setup", "start", "dispatch",
     "join", "elapsed", "report", "sample", "done"}

TaskStates == {"pending", "running", "done"}

\* C17: every chunk task that has built its cipher built it from a key of
\* exactly 16 bytes and an IV of exactly 16 bytes, and neither a task nor
\* the run is ever in an outcome other than those of the code, none of
\* which is a cipher initialisation error.
C17_CipherInit ==
    /\ pc \in RunPositions
    /\ \A t \in 1..Len(task) :
          /\ task[t].st \in TaskStates
          /\ task[t].st # "pending" =>
                /\ Len(key) = KeyLen
                /\ \A b \in 1..Len(key) : key[b] \in Byte
                /\ Len(task[t].iv) = BlockLen
                /\ \A b \in 1..Len(task[t].iv) : task[t].iv[b] \in Byte

\* the tasks of chunks 0 and 1 have built their ciphers and ended
C17_Witness ==
    /\ Len(task) >= 2
    /\ task[1].st = "done"
    /\ task[2].st = "done"
    /\ task[2].iv = <<0, 0, 0, 0, 0, 0, 0, 0, 1, 0, 0, 0, 0, 0, 0, 0>>

\* the reads the sample loop has made
SampleReads == {e \in reads : e.by = "sample"}

\* C18: once the loop has gone round i times it has read exactly the
\* records 0..i-1, one per round in index order, each below N and below 5;
\* it stops at i = min(5, N), so it reads nothing when N = 0, all N records
\* when N < 5 and the first five when N > 5, and never indexes outside the
\* buffer.
C18_SampleBounds ==
    /\ pc \in {"elapsed", "report", "sample", "done"}
    /\ i <= Min(SampleCount, N)
    /\ Len(sample) = i
    /\ {e.rec : e \in SampleReads} = 0..(i - 1)
    /\ \A e \in SampleReads : e.rec >= 0 /\ e.rec < N /\ e.rec < SampleCount /\ e.written
    /\ \A n \in 1..Len(sample) : sample[n] = passwords[n]
    /\ pc = "done" => i = Min(SampleCount, N)

\* a run of seven records has printed its first five and stopped
C18_Witness == pc = "done" /\ N = 7 /\ i = 5 /\ Len(sample) = 5
====
